---------------------------- MODULE Spec2Model ----------------------------
(***************************************************************************)
(* Model of the gated content script (src/unnamed/part_000): the signal    *)
(* collector, the sensitivity detector, the per-page trigger gate, the     *)
(* analysis bridge with its 3500 ms abort timer, and the alert overlay.    *)
(*                                                                         *)
(* A JavaScript string is a sequence of one-character strings, so that     *)
(* split, trim, includes, toLowerCase and escapeHtml are computed and not  *)
(* assumed.  A JavaScript value that may be null, undefined, a number, a   *)
(* string, a boolean or an array is a tagged record.  Every handler runs   *)
(* to completion (one action per handler); the only suspension points are  *)
(* the debounce timer, the abort timer and the network.                    *)
(* The shipped variant (src/chrome-extension/content.js) is modelled after  *)
(* it, over the same pages and the same variables.                         *)
(***************************************************************************)
EXTENDS Integers, Sequences, FiniteSets, TLC

(***************************************************************************)
(* Bounds of the model.                                                    *)
(***************************************************************************)
MaxClicks == 2
MaxManual == 1

(***************************************************************************)
(* JavaScript values.                                                      *)
(***************************************************************************)
Undef == [t |-> "undefined"]
Null == [t |-> "null"]
Num(n) == [t |-> "number", v |-> n]
Str(s) == [t |-> "string", v |-> s]
Bool(b) == [t |-> "boolean", v |-> b]
Arr(a) == [t |-> "array", v |-> a]

\* x ?? y
Nullish(v) == v.t \in {"undefined", "null"}

\* ToBoolean(v)
Truthy(v) ==
  CASE v.t = "undefined" -> FALSE
    [] v.t = "null" -> FALSE
    [] v.t = "number" -> v.v # 0
    [] v.t = "string" -> v.v # <<>>
    [] v.t = "boolean" -> v.v
    [] OTHER -> TRUE

(***************************************************************************)
(* Strings.                                                                *)
(***************************************************************************)
UpperChars == <<"A","B","C","D","E","F","G","H","I","J","K","L","M",
                "N","O","P","Q","R","S","T","U","V","W","X","Y","Z">>
LowerChars == <<"a","b","c","d","e","f","g","h","i","j","k","l","m",
                "n","o","p","q","r","s","t","u","v","w","x","y","z">>

LowerChar(c) ==
  IF \E i \in 1..26 : UpperChars[i] = c
  THEN LowerChars[CHOOSE i \in 1..26 : UpperChars[i] = c]
  ELSE c

\* String.prototype.toLowerCase
ToLowerCase(s) == [i \in 1..Len(s) |-> LowerChar(s[i])]

\* String.prototype.includes
Includes(s, sub) ==
  \E i \in 1..(Len(s) + 1 - Len(sub)) : SubSeq(s, i, i + Len(sub) - 1) = sub

\* String.prototype.indexOf, 0 when absent (positions count from 1)
IndexOf(s, sub) ==
  IF Includes(s, sub)
  THEN CHOOSE i \in 1..(Len(s) + 1 - Len(sub)) :
         /\ SubSeq(s, i, i + Len(sub) - 1) = sub
         /\ \A j \in 1..(i - 1) : SubSeq(s, j, j + Len(sub) - 1) # sub
  ELSE 0

RECURSIVE Split(_, _)
\* String.prototype.split on a one-character separator
Split(s, sep) ==
  LET i == IndexOf(s, <<sep>>) IN
  IF i = 0 THEN <<s>>
  ELSE <<SubSeq(s, 1, i - 1)>> \o Split(SubSeq(s, i + 1, Len(s)), sep)

WhiteSpace == {" "}

RECURSIVE TrimStart(_)
TrimStart(s) ==
  IF s # <<>> /\ Head(s) \in WhiteSpace THEN TrimStart(Tail(s)) ELSE s

RECURSIVE TrimEnd(_)
TrimEnd(s) ==
  IF s # <<>> /\ s[Len(s)] \in WhiteSpace
  THEN TrimEnd(SubSeq(s, 1, Len(s) - 1)) ELSE s

\* String.prototype.trim
Trim(s) == TrimEnd(TrimStart(s))

\* Array.prototype.slice(0, n)
Slice0(a, n) == SubSeq(a, 1, IF Len(a) < n THEN Len(a) ELSE n)

RECURSIVE Join(_, _)
\* Array.prototype.join
Join(a, sep) ==
  IF a = <<>> THEN <<>>
  ELSE IF Len(a) = 1 THEN a[1]
  ELSE a[1] \o sep \o Join(Tail(a), sep)

Digits == <<"0","1","2","3","4","5","6","7","8","9">>

RECURSIVE NumToString(_)
\* String(n) of a non-negative integer
NumToString(n) ==
  IF n < 10 THEN <<Digits[n + 1]>>
  ELSE NumToString(n \div 10) \o <<Digits[(n % 10) + 1]>>

\* String(v), what a template literal inserts for ${v}
JsString(v) ==
  CASE v.t = "undefined" -> <<"u","n","d","e","f","i","n","e","d">>
    [] v.t = "null" -> <<"n","u","l","l">>
    [] v.t = "number" -> NumToString(v.v)
    [] v.t = "string" -> v.v
    [] v.t = "boolean" -> IF v.v THEN <<"t","r","u","e">> ELSE <<"f","a","l","s","e">>
    [] OTHER -> Join(v.v, <<",">>)

RECURSIVE ReplaceAll(_, _, _)
\* s.replace(/c/g, by) for a one-character pattern
ReplaceAll(s, c, by) ==
  IF \A i \in 1..Len(s) : s[i] # c THEN s
  ELSE LET i == CHOOSE i \in 1..Len(s) : s[i] = c /\ \A j \in 1..(i - 1) : s[j] # c
       IN SubSeq(s, 1, i - 1) \o by \o ReplaceAll(SubSeq(s, i + 1, Len(s)), c, by)

\* escapeHtml: & first, then <, then >
escapeHtml(s) ==
  ReplaceAll(
    ReplaceAll(
      ReplaceAll(s, "&", <<"&","a","m","p",";">>),
      "<", <<"&","l","t",";">>),
    ">", <<"&","g","t",";">>)

(***************************************************************************)
(* The host page: what the script reads of it.  faults names the reads of   *)
(* the page that raise an exception there: "collect" (document.cookie in a  *)
(* document without cookie access), "detect" (the body text getter),        *)
(* "render" (document.documentElement is null when the overlay is          *)
(* appended).  The pages of the nominal environment have none.             *)
(***************************************************************************)
HrefLogin == <<"h","t","t","p","s",":","/","/","a",".","i","o","/","l","o","g","i","n">>
HostA == <<"a",".","i","o">>
SrcSameHost == <<"h","t","t","p","s",":","/","/","a",".","i","o","/","m",".","j","s">>
SrcTracker == <<"h","t","t","p","s",":","/","/","t",".","c","o","/","P","i","x","e","l",".","j","s">>
SrcThird == <<"h","t","t","p","s",":","/","/","b",".","i","o","/","x",".","j","s">>
SrcUnparsable == <<"/","r","e","l",".","j","s">>

\* a password input and no keyword text
PagePassword ==
  [href |-> HrefLogin, hostname |-> HostA,
   body |-> Str(<<"W","e","l","c","o","m","e">>), hasPassword |-> TRUE,
   cookie |-> <<"a","=","1",";"," ","b","=","2">>,
   scripts |-> <<SrcSameHost, SrcTracker>>, faults |-> {}]

\* keyword text ("Email") and no password input
PageKeyword ==
  [href |-> HrefLogin, hostname |-> HostA,
   body |-> Str(<<"E","n","t","e","r"," ","E","m","a","i","l">>), hasPassword |-> FALSE,
   cookie |-> <<>>,
   scripts |-> <<SrcThird, SrcUnparsable>>, faults |-> {}]

\* neither: the detector judges the page not sensitive
PagePlain ==
  [href |-> HrefLogin, hostname |-> HostA,
   body |-> Str(<<"H","o","m","e">>), hasPassword |-> FALSE,
   cookie |-> <<"a","=","1">>,
   scripts |-> <<>>, faults |-> {}]

Pages == {PagePassword, PageKeyword, PagePlain}

\* the same pages in an environment where one of the script's reads raises
FaultPages ==
  {[PagePlain EXCEPT !.faults = {"collect"}],
   [PageKeyword EXCEPT !.faults = {"detect"}],
   [PagePassword EXCEPT !.faults = {"render"}]}

(***************************************************************************)
(* Inputs of the collector and of the detector: cookie strings, lists of   *)
(* script URLs and body texts, one page for each.                          *)
(***************************************************************************)
MaxCookieLen == 4
MaxScripts == 2

CookieAlphabet == {"a", ";", " "}

\* document.cookie of n cookies c1 .. cn
ManyCookies(n) == Join([i \in 1..n |-> <<"c">> \o NumToString(i)], <<";", " ">>)

CookieStrings ==
  UNION {[1..n -> CookieAlphabet] : n \in 0..MaxCookieLen}
    \cup {ManyCookies(n) : n \in {9, 10, 11, 12}}

SrcDoubleclick == <<"h","t","t","p","s",":","/","/","a","d","s",".","d","o","u","b","l","e","c","l","i","c","k",".","n","e","t","/","x",".","j","s">>
SrcSameHostTracker == <<"h","t","t","p","s",":","/","/","a",".","i","o","/","A","n","a","l","y","t","i","c","s",".","j","s">>
SrcUpperHost == <<"H","T","T","P","S",":","/","/","A",".","I","O","/","x",".","j","s">>
SrcNoHost == <<"h","t","t","p","s",":","/","/">>
SrcData == <<"d","a","t","a",":",",","x">>
ScriptSrcs ==
  {SrcSameHost, SrcTracker, SrcThird, SrcUnparsable, SrcDoubleclick,
   SrcSameHostTracker, SrcUpperHost, SrcNoHost, SrcData}

ScriptLists == UNION {[1..n -> ScriptSrcs] : n \in 0..MaxScripts}

\* document.body.innerText; Null where the document has no body
BodyTexts ==
  {Null, Str(<<>>),
   Str(<<"P","l","e","a","s","e"," ","L","O","G","I","N"," ","h","e","r","e">>),
   Str(<<"S","i","g","n"," ","I","n">>),
   Str(<<"P","l","e","a","s","e"," ","L","O","G"," ","I","N"," ","h","e","r","e">>),
   Str(<<"S","i","g","n","i","n">>),
   Str(<<"P","l","e","a","s","e"," ","P","A","S","S","W","O","R","D"," ","h","e","r","e">>),
   Str(<<"U","s","e","r","n","a","m","e">>),
   Str(<<"P","l","e","a","s","e"," ","E","M","A","I","L"," ","h","e","r","e">>),
   Str(<<"C","r","e","a","t","e"," ","A","c","c","o","u","n","t">>),
   Str(<<"P","l","e","a","s","e"," ","R","E","G","I","S","T","E","R"," ","h","e","r","e">>),
   Str(<<"H","o","m","e">>),
   Str(<<"s","i","g","n"," ","u","p">>),
   Str(<<"l","o","g","-","i","n">>),
   Str(<<"e","-","m","a","i","l">>),
   Str(<<"L","O","G"," ","O","U","T">>),
   Str(<<"s","i","n","g"," ","i","n">>),
   Str(<<"p","a","s","s"," ","w","o","r","d">>)}

\* three cookies, a doubleclick script and a script of the page's own host
PageScenario ==
  [PagePlain EXCEPT !.cookie = <<"a","=","1",";"," ","b","=","2",";"," ","c","=","3">>,
                    !.scripts = <<SrcDoubleclick, SrcSameHost>>]

InputPages ==
  {[PagePlain EXCEPT !.cookie = c] : c \in CookieStrings}
    \cup {[PagePlain EXCEPT !.scripts = l] : l \in ScriptLists}
    \cup {[PagePlain EXCEPT !.body = b, !.hasPassword = h] :
            b \in BodyTexts, h \in BOOLEAN}
    \cup {PageScenario}

\* the page after one more cookie was set and one more script was inserted
Changed(pg) ==
  [pg EXCEPT !.cookie = IF @ = <<>> THEN <<"z","=","1">> ELSE @ \o <<";"," ","z","=","1">>,
             !.scripts = Append(@, SrcDoubleclick)]

ChangedPages == {Changed(pg) : pg \in Pages}

AllPages == Pages \cup FaultPages \cup InputPages \cup ChangedPages

(***************************************************************************)
(* Signal collector.                                                       *)
(***************************************************************************)
TrackerWords ==
  {<<"a","n","a","l","y","t","i","c","s">>,
   <<"g","o","o","g","l","e","-","a","n","a","l","y","t","i","c","s">>,
   <<"d","o","u","b","l","e","c","l","i","c","k">>,
   <<"f","a","c","e","b","o","o","k">>,
   <<"p","i","x","e","l">>,
   <<"t","r","a","c","k","i","n","g">>}

\* a tracker test that compares the URL as written
IsTrackerCaseSensitive(src) == \E w \in TrackerWords : Includes(src, w)

\* the filter of the trackers list: the lower-cased src holds a vocabulary word
IsTracker(src) == \E w \in TrackerWords : Includes(ToLowerCase(src), w)

\* the schemes whose URLs must name a host
SpecialSchemes == {<<"h","t","t","p">>, <<"h","t","t","p","s">>, <<"f","t","p">>, <<"w","s">>, <<"w","s","s">>}

\* the characters that end the host of a URL
HostEnd == {"/", "?", "#", ":"}

\* the longest prefix of s holding none of the characters stops
UpTo(s, stops) ==
  IF \E i \in 1..Len(s) : s[i] \in stops
  THEN SubSeq(s, 1, (CHOOSE i \in 1..Len(s) :
                       s[i] \in stops /\ \A j \in 1..(i - 1) : s[j] \notin stops) - 1)
  ELSE s

RECURSIVE StripSlashes(_)
StripSlashes(s) == IF s # <<>> /\ Head(s) = "/" THEN StripSlashes(Tail(s)) ELSE s

\* new URL(src).hostname with no base URL; Null when the constructor throws: no
\* scheme, or a special scheme and no host.  Any other scheme parses, with an
\* empty hostname unless "//" and a host follow it.
URLHostname(src) ==
  LET i == IndexOf(src, <<":">>) IN
  IF i <= 1 THEN Null
  ELSE LET scheme == ToLowerCase(SubSeq(src, 1, i - 1))
           rest == SubSeq(src, i + 1, Len(src))
       IN IF scheme \in SpecialSchemes
          THEN LET host == UpTo(StripSlashes(rest), HostEnd)
               IN IF host = <<>> THEN Null ELSE Str(ToLowerCase(host))
          ELSE IF Len(rest) >= 2 /\ SubSeq(rest, 1, 2) = <<"/", "/">>
               THEN Str(ToLowerCase(UpTo(SubSeq(rest, 3, Len(rest)), HostEnd)))
               ELSE Str(<<>>)

getCookiesAndTrackers(pg) ==
  LET kept == SelectSeq(Split(pg.cookie, ";"), LAMBDA c : c # <<>>)
      cookies == [i \in 1..Len(kept) |-> Trim(kept[i])]
      trackers == SelectSeq(pg.scripts, IsTracker)
      hosts == [i \in 1..Len(pg.scripts) |-> URLHostname(pg.scripts[i])]
      thirdPartyScripts == SelectSeq(hosts, LAMBDA h : Truthy(h) /\ h # Str(pg.hostname))
  IN [cookieCount |-> Num(Len(cookies)),
      cookiePreview |-> Arr(Slice0(cookies, 10)),
      trackers |-> Arr(trackers),
      thirdPartyScriptsCount |-> Num(Len(thirdPartyScripts))]

\* what a call that raised leaves in place of its value
Threw == [t |-> "threw"]

\* the call of getCookiesAndTrackers in the page's environment
Collect(pg) == IF "collect" \in pg.faults THEN Threw ELSE getCookiesAndTrackers(pg)

(***************************************************************************)
(* Sensitivity detector.                                                   *)
(***************************************************************************)
indicators ==
  {<<"l","o","g","i","n">>, <<"s","i","g","n"," ","i","n">>, <<"l","o","g"," ","i","n">>,
   <<"s","i","g","n","i","n">>, <<"p","a","s","s","w","o","r","d">>,
   <<"u","s","e","r","n","a","m","e">>, <<"e","m","a","i","l">>,
   <<"c","r","e","a","t","e"," ","a","c","c","o","u","n","t">>,
   <<"r","e","g","i","s","t","e","r">>}

\* the body text as written
BodyTextAsWritten(pg) == IF Truthy(pg.body) THEN pg.body.v ELSE <<>>

\* (document.body && document.body.innerText || "").toLowerCase()
BodyText(pg) == ToLowerCase(IF Truthy(pg.body) THEN pg.body.v ELSE <<>>)

hasIndicatorText(pg) == \E k \in indicators : Includes(BodyText(pg), k)


(***************************************************************************)
(* State.                                                                  *)
(***************************************************************************)
VARIABLES
  page,        \* the host page the script was injected into
  triggered,   \* window.__mcp_triggered_this_page (undefined reads as FALSE)
  timers,      \* pending 40 ms debounce timers set by the click listener
  requests,    \* one record per postToBridge call, in call order
  dom,         \* overlay elements under document.documentElement, in document order
  readyRuns,   \* detectLoginAndTrigger has run "never", "once" or "again"
  rapidClicks, \* two or more qualifying clicks were made while the state was Idle
  dismissed,   \* overlay instances whose once-only dismiss listener has run
  uncaught     \* entry paths out of which an exception or a rejection escaped

vars == <<page, triggered, timers, requests, dom, readyRuns, rapidClicks, dismissed,
          uncaught>>

NoPayload == [t |-> "none"]

(***************************************************************************)
(* Alert presenter.                                                        *)
(***************************************************************************)
\* the em dash shown for a missing count
Dash == <<"-">>

\* payload.privacy_risk ?? payload.risk ?? "Unknown"
RiskOf(payload) ==
  IF ~Nullish(payload.privacy_risk) THEN payload.privacy_risk
  ELSE IF ~Nullish(payload.risk) THEN payload.risk
  ELSE Str(<<"U","n","k","n","o","w","n">>)

\* the text each interpolation of the popup template contributes to innerHTML
RenderPopup(payload, url) ==
  [url |-> escapeHtml(url),
   cookies |-> IF Nullish(payload.cookieCount) THEN Dash
               ELSE JsString(payload.cookieCount),
   trackers |-> IF payload.trackers.t = "array"
                THEN NumToString(Len(payload.trackers.v)) ELSE Dash,
   third |-> IF Nullish(payload.thirdPartyScriptsCount) THEN Dash
             ELSE JsString(payload.thirdPartyScriptsCount),
   risk |-> escapeHtml(JsString(RiskOf(payload))),
   notice |-> Truthy(payload.server_error)]

\* document.getElementById(OVERLAY_ID)?.remove(): the first overlay in document order
RemoveFirstOverlay(d) == IF d = <<>> THEN d ELSE Tail(d)

\* document.getElementById(POPUP_ID)?.remove(): the first popup still in the document
RemoveFirstPopup(d) ==
  IF \E k \in 1..Len(d) : d[k].hasPopup
  THEN LET k == CHOOSE k \in 1..Len(d) :
                  d[k].hasPopup /\ \A j \in 1..(k - 1) : ~d[j].hasPopup
       IN [d EXCEPT ![k].hasPopup = FALSE]
  ELSE d

\* showPopup without its cleanup
RemoveExistingNone(d) == d

\* the cleanup at the head of showPopup
RemoveExisting(d) == RemoveFirstPopup(RemoveFirstOverlay(d))

\* the overlay instances attached to the document
Insts(d) == {d[k].inst : k \in 1..Len(d)}

\* showPopup: cleanup, then a new overlay holding a new popup built from
\* (payload, url) is appended; replaced names what the cleanup detached
showPopup(d, inst, req, payload, url) ==
  Append(RemoveExisting(d),
         [inst |-> inst, req |-> req, hasPopup |-> TRUE,
          payload |-> payload, url |-> url,
          replaced |-> Insts(d) \ Insts(RemoveExisting(d))])

\* document.documentElement.appendChild(overlay) raises: the document has no root
RenderThrows(pg) == "render" \in pg.faults

\* a dismiss handler that looks the overlay up by its id when the click comes
OverlayById(d, inst) == IF d = <<>> THEN {} ELSE {1}

\* the overlay a dismiss handler removes: the one its closure holds, if attached
OverlayOf(d, inst) == {k \in 1..Len(d) : d[k].inst = inst}

\* the document without the overlays at positions ks
RemoveAt(d, ks) ==
  LET F[k \in 0..Len(d)] ==
        IF k = 0 THEN <<>>
        ELSE IF k \in ks THEN F[k - 1] ELSE Append(F[k - 1], d[k])
  IN F[Len(d)]

\* popup.innerHTML of overlay o, by interpolation
innerHTML(o) == RenderPopup(o.payload, o.url)

(***************************************************************************)
(* Analysis bridge.                                                        *)
(***************************************************************************)
\* { ...local }
Baseline(local) ==
  [cookieCount |-> local.cookieCount, cookiePreview |-> local.cookiePreview,
   trackers |-> local.trackers,
   thirdPartyScriptsCount |-> local.thirdPartyScriptsCount,
   privacy_risk |-> Undef, risk |-> Undef, server_error |-> Undef]

PayloadFields ==
  {"cookieCount", "cookiePreview", "trackers", "thirdPartyScriptsCount",
   "privacy_risk", "risk", "server_error"}

\* Object.assign({}, a, b): a field b carries wins (Undef marks an absent key)
Assign(a, b) == [f \in PayloadFields |-> IF b[f] # Undef THEN b[f] ELSE a[f]]

EmptyObject == [f \in PayloadFields |-> Undef]

\* what the analysis endpoint may answer once its body parses as JSON
JsonMinimal == [EmptyObject EXCEPT !.privacy_risk = Str(<<"H","i","g","h">>)]
JsonEcho ==
  [EmptyObject EXCEPT !.risk = Str(<<"<","b",">","&">>),
                      !.cookieCount = Num(9),
                      !.trackers = Arr(<<SrcThird, SrcThird, SrcThird>>),
                      !.thirdPartyScriptsCount = Str(<<"<","b",">","x","<","/","b",">">>),
                      !.server_error = Bool(TRUE)]
ServerJsons == {Null, JsonMinimal, JsonEcho}

\* json || {}
OrEmpty(json) == IF json = Null THEN EmptyObject ELSE json

\* a merge that lets the server's cookieCount stand
MergedServerCount(local, json) == Assign(Baseline(local), OrEmpty(json))

\* the success continuation's payload: merge, then the local cookieCount again
Merged(local, json) ==
  [Assign(Baseline(local), OrEmpty(json)) EXCEPT !.cookieCount = local.cookieCount]

\* a fallback that leaves out the server_error mark
FallbackNoFlag(local) ==
  [Baseline(local) EXCEPT
     !.privacy_risk = Str(<<"S","e","r","v","e","r"," ","u","n","a","v","a","i","l","a","b","l","e">>)]

\* the failure continuation's payload
Fallback(local) ==
  [Baseline(local) EXCEPT
     !.privacy_risk = Str(<<"S","e","r","v","e","r"," ","u","n","a","v","a","i","l","a","b","l","e">>),
     !.server_error = Bool(TRUE)]

\* getCookiesAndTrackers, tabulated over the pages of the model
Snapshot == [pg \in AllPages |-> Collect(pg)]

\* JSON.stringify({ url, ...local }), as the object it encodes
RequestBody(url, local) ==
  [url |-> url, cookieCount |-> local.cookieCount, cookiePreview |-> local.cookiePreview,
   trackers |-> local.trackers, thirdPartyScriptsCount |-> local.thirdPartyScriptsCount]

\* a bridge that keeps the snapshot of its first call for the later ones
NewRequestCached(pg, url, origin) ==
  LET local == IF requests = <<>> THEN Snapshot[pg] ELSE requests[1].local
  IN [origin |-> origin, url |-> url, local |-> local, body |-> RequestBody(url, local),
      phase |-> "fetching", fetches |-> 1, outcome |-> "none", json |-> NoPayload,
      shown |-> NoPayload, popups |-> 0]

\* postToBridge up to the return of fetch: snapshot, abort timer armed, request out
NewRequest(pg, url, origin) ==
  [origin |-> origin, url |-> url, local |-> Snapshot[pg],
   body |-> RequestBody(url, Snapshot[pg]),
   phase |-> "fetching", fetches |-> 1, outcome |-> "none", json |-> NoPayload,
   shown |-> NoPayload, popups |-> 0]

\* getCookiesAndTrackers raised at the head of postToBridge
postThrows(pg) == Snapshot[pg] = Threw

\* postToBridge as its caller sees it: a request more, or nothing when it raised
postToBridge(reqs, pg, url, origin) ==
  IF postThrows(pg) THEN reqs ELSE Append(reqs, NewRequest(pg, url, origin))

\* the url argument of window.__mcp_trigger_privacy_check: none, or a string
ManualUrls == {Undef, Str(<<"x","?","a","&","b","=","<","i",">">>)}

RECURSIVE SumPopups(_)
SumPopups(reqs) ==
  IF reqs = <<>> THEN 0 ELSE Head(reqs).popups + SumPopups(Tail(reqs))

\* an abort timer that no continuation clears
TimerArmedAlways(i) == TRUE

\* a bridge without an abort timer
TimerArmedNever(i) == FALSE

\* the abort timer of request i is armed from the call until a continuation clears it
TimerArmed(i) == requests[i].phase # "settled"

\* a continuation of request i ends it: clearTimeout(to), then showPopup(payload, url).
\* Where showPopup raises, it raises after its cleanup: raised inside .then it
\* rejects into .catch, whose own showPopup raises again, and the promise .catch
\* returns is rejected with no handler.
Settle(i, outcome, json, payload) ==
  IF RenderThrows(page)
  THEN /\ requests' = [requests EXCEPT ![i].phase = "settled",
                                       ![i].outcome = outcome,
                                       ![i].json = json,
                                       ![i].shown = Fallback(requests[i].local)]
       /\ dom' = RemoveExisting(dom)
       /\ uncaught' = uncaught \cup {"continuation"}
  ELSE /\ requests' = [requests EXCEPT ![i].phase = "settled",
                                       ![i].outcome = outcome,
                                       ![i].json = json,
                                       ![i].shown = payload,
                                       ![i].popups = @ + 1]
       /\ dom' = showPopup(dom, SumPopups(requests) + 1, i, payload, requests[i].url)
       /\ UNCHANGED uncaught

(***************************************************************************)
(* Trigger coordinator and event handlers.                                 *)
(***************************************************************************)
\* the debounce callback without the look at the flag
TimerGateNoCheck == TRUE

\* hasPassword || hasIndicatorText, tabulated over the pages of the model
Sensitive == [pg \in AllPages |-> pg.hasPassword \/ hasIndicatorText(pg)]

\* reading document.body.innerText raises, inside detectLoginAndTrigger's try
DetectThrows(pg) == "detect" \in pg.faults

\* the page-ready path without the look at the flag
DetectGateNoCheck == ~DetectThrows(page) /\ Sensitive[page]

\* the gate of the page-ready path
DetectGate == ~DetectThrows(page) /\ Sensitive[page] /\ ~triggered

\* a debounce callback that dispatches only where the detector finds the page
\* sensitive
TimerGateSensitive == ~triggered /\ Sensitive[page]

\* the gate of the debounced click path
TimerGate == ~triggered

\* what a click may land on: e.target's innerText and value
Element(innerText, value) == [t |-> "element", innerText |-> innerText, value |-> value]
ClickTargets ==
  {Null,
   Element(Str(<<"S","i","g","n"," ","I","n">>), Undef),
   Element(Str(<<>>), Str(<<"L","o","g"," ","I","n"," ","n","o","w">>)),
   Element(Str(<<"H","o","m","e">>), Undef)}
DismissButton == Element(Str(<<"D","i","s","m","i","s","s">>), Undef)

\* (t && (t.innerText || t.value) || "").toLowerCase()
ClickText(t) ==
  LET first == IF ~Truthy(t) THEN t
               ELSE IF Truthy(t.innerText) THEN t.innerText ELSE t.value
  IN ToLowerCase(IF Truthy(first) THEN JsString(first) ELSE <<>>)

ClickWords ==
  {<<"l","o","g","i","n">>, <<"s","i","g","n"," ","i","n">>, <<"l","o","g"," ","i","n">>}

\* the click listener's condition for arming a debounce timer
ClickQualifies(t) ==
  LET txt == ClickText(t) IN txt # <<>> /\ \E w \in ClickWords : Includes(txt, w)

\* ClickQualifies, tabulated over the targets of the model
Qualifying == {t \in ClickTargets \cup {DismissButton} : ClickQualifies(t)}

\* the call site of each postToBridge call: the page-ready path, the debounce
\* callback, the manual trigger
DetectorOrigins == {"ready", "click"}
DetectorRequests == {i \in 1..Len(requests) : requests[i].origin \in DetectorOrigins}
ManualRequests == {i \in 1..Len(requests) : requests[i].origin = "manual"}
InFlight == {i \in 1..Len(requests) : requests[i].phase # "settled"}

\* the script has just been injected: nothing has run yet
Start ==
  /\ triggered = FALSE
  /\ timers = 0
  /\ requests = <<>>
  /\ dom = <<>>
  /\ readyRuns = "never"
  /\ rapidClicks = FALSE
  /\ dismissed = {}
  /\ uncaught = {}

Init == page \in Pages /\ Start

\* a page-ready path that issues the request and leaves the flag for later
detectLoginAndTriggerNoMark ==
  /\ readyRuns' = IF readyRuns = "never" THEN "once" ELSE "again"
  /\ IF DetectGate
     THEN requests' = postToBridge(requests, page, page.href, "ready")
     ELSE UNCHANGED requests
  /\ UNCHANGED <<page, triggered, timers, dom, rapidClicks, dismissed, uncaught>>

\* the page-ready event: DOMContentLoaded, or the direct call when already loaded
detectLoginAndTrigger ==
  /\ readyRuns' = IF readyRuns = "never" THEN "once" ELSE "again"
  /\ IF DetectGate
     THEN /\ triggered' = TRUE
          /\ requests' = postToBridge(requests, page, page.href, "ready")
     ELSE UNCHANGED <<triggered, requests>>
  /\ UNCHANGED <<page, timers, dom, rapidClicks, dismissed, uncaught>>

\* the capture-phase click listener
OnClick(t) ==
  IF t \in Qualifying
  THEN /\ timers < MaxClicks
       /\ timers' = timers + 1
       /\ rapidClicks' = (rapidClicks \/ (~triggered /\ timers >= 1))
  ELSE UNCHANGED <<timers, rapidClicks>>

Click ==
  /\ \E t \in ClickTargets : OnClick(t)
  /\ UNCHANGED <<page, triggered, requests, dom, readyRuns, dismissed, uncaught>>

\* a debounce callback that marks the page and issues nothing
DebounceFireNoPost ==
  /\ timers > 0
  /\ timers' = timers - 1
  /\ triggered' = TRUE
  /\ UNCHANGED <<page, requests, dom, readyRuns, rapidClicks, dismissed, uncaught>>

\* a debounce timer fires
DebounceFire ==
  /\ timers > 0
  /\ timers' = timers - 1
  /\ IF TimerGate
     THEN /\ triggered' = TRUE
          /\ requests' = postToBridge(requests, page, page.href, "click")
          /\ uncaught' = IF postThrows(page) THEN uncaught \cup {"timer"} ELSE uncaught
     ELSE UNCHANGED <<triggered, requests, uncaught>>
  /\ UNCHANGED <<page, dom, readyRuns, rapidClicks, dismissed>>

\* a manual trigger that marks the page as dispatched
ManualTriggerMarks ==
  /\ Cardinality(ManualRequests) < MaxManual
  /\ triggered' = TRUE
  /\ \E u \in ManualUrls :
       requests' = postToBridge(requests, page,
                                IF Truthy(u) THEN u.v ELSE page.href, "manual")
  /\ UNCHANGED <<page, timers, dom, readyRuns, rapidClicks, dismissed, uncaught>>

\* window.__mcp_trigger_privacy_check(url)
ManualTrigger ==
  /\ Cardinality(ManualRequests) < MaxManual
  /\ \E u \in ManualUrls :
       requests' = postToBridge(requests, page,
                                IF Truthy(u) THEN u.v ELSE page.href, "manual")
  /\ UNCHANGED <<page, triggered, timers, dom, readyRuns, rapidClicks, dismissed, uncaught>>

\* the endpoint's response head arrives: fetch resolves and r.json() starts reading
ResponseArrives(i) ==
  /\ requests[i].phase = "fetching"
  /\ requests' = [requests EXCEPT ![i].phase = "reading"]
  /\ UNCHANGED <<page, triggered, timers, dom, readyRuns, rapidClicks, dismissed, uncaught>>

\* r.json() resolves: the success continuation
ThenContinuation(i) ==
  /\ requests[i].phase = "reading"
  /\ \E json \in ServerJsons :
       Settle(i, "success", json, Merged(requests[i].local, json))
  /\ UNCHANGED <<page, triggered, timers, readyRuns, rapidClicks, dismissed>>

\* a failure continuation that sends the request again
CatchContinuationRetry(i, kind) ==
  /\ requests' = [requests EXCEPT ![i].phase = "fetching", ![i].fetches = @ + 1]
  /\ UNCHANGED <<page, triggered, timers, dom, readyRuns, rapidClicks, dismissed,
                 uncaught>>

\* the failure continuation, whatever rejected the chain
CatchContinuation(i, kind) ==
  /\ Settle(i, kind, NoPayload, Fallback(requests[i].local))
  /\ UNCHANGED <<page, triggered, timers, readyRuns, rapidClicks, dismissed>>

\* the body is not JSON: r.json() rejects
ParseFails(i) ==
  /\ requests[i].phase = "reading"
  /\ CatchContinuation(i, "parsefail")

\* connection refused or lost: fetch (or the body read) rejects
NetworkFails(i) ==
  /\ requests[i].phase \in {"fetching", "reading"}
  /\ CatchContinuation(i, "neterror")

\* the 3500 ms timer fires: controller.abort() rejects the pending chain
AbortTimerFires(i) ==
  /\ TimerArmed(i)
  /\ CatchContinuation(i, "timeout")

\* a dismissal that lets the detector dispatch again
DismissRearms(n) ==
  /\ n \notin dismissed
  /\ UNCHANGED <<timers, rapidClicks>>
  /\ dom' = RemoveAt(dom, OverlayOf(dom, n))
  /\ dismissed' = dismissed \cup {n}
  /\ triggered' = FALSE
  /\ UNCHANGED <<page, requests, readyRuns, uncaught>>

\* a click reaches the dismiss control showPopup call n made: its listener is
\* installed once and still unused.  While the control is attached the document's
\* capture listener sees the click first; the control of a replaced overlay is
\* detached and can still be clicked through a reference to it.  The handler
\* removes the overlay its closure holds.
Dismiss(n) ==
  /\ n \notin dismissed
  /\ IF \E k \in OverlayOf(dom, n) : dom[k].hasPopup
     THEN OnClick(DismissButton)
     ELSE UNCHANGED <<timers, rapidClicks>>
  /\ dom' = RemoveAt(dom, OverlayOf(dom, n))
  /\ dismissed' = dismissed \cup {n}
  /\ UNCHANGED <<page, triggered, requests, readyRuns, uncaught>>

\* an overlay that removes itself after a delay, as no handler of this script does
AutoExpire ==
  /\ dom # <<>>
  /\ dom' = Tail(dom)
  /\ UNCHANGED <<page, triggered, timers, requests, readyRuns, rapidClicks, dismissed, uncaught>>

\* every event the script reacts to
Handlers ==
  \/ detectLoginAndTrigger
  \/ Click
  \/ DebounceFire
  \/ ManualTrigger
  \/ \E i \in 1..Len(requests) : ResponseArrives(i)
  \/ \E i \in 1..Len(requests) : ThenContinuation(i)
  \/ \E i \in 1..Len(requests) : ParseFails(i)
  \/ \E i \in 1..Len(requests) : NetworkFails(i)
  \/ \E i \in 1..Len(requests) : AbortTimerFires(i)
  \/ \E n \in 1..SumPopups(requests) : Dismiss(n)

NextAutoExpire == Handlers \/ AutoExpire

Next == Handlers

Spec == Init /\ [][Next]_vars

\* a timer that was set and not cleared fires; the network owes nothing
ReqIds == 1..(MaxManual + 1)
TimerFairness ==
  \A i \in ReqIds : WF_vars(i \in DOMAIN requests /\ AbortTimerFires(i))

SpecLive == Spec /\ TimerFairness

\* the same script on the pages whose reads raise
InitFaults == page \in FaultPages /\ Start

SpecFaults == InitFaults /\ [][Next]_vars

\* the page sets a cookie and inserts a script while the script is running
PageChanges ==
  /\ page \in Pages
  /\ page' = Changed(page)
  /\ UNCHANGED <<triggered, timers, requests, dom, readyRuns, rapidClicks, dismissed,
                 uncaught>>

NextMutable == Handlers \/ PageChanges

SpecMutable == Init /\ [][NextMutable]_vars

\* the collector and the detector over their inputs: the page-ready event and the
\* manual trigger, each of which runs them on the page as it is
InitInputs == page \in InputPages /\ Start

NextInputs == detectLoginAndTrigger \/ ManualTrigger

SpecInputs == InitInputs /\ [][NextInputs]_vars

(***************************************************************************)
(* The shipped content script (src/chrome-extension/content.js): the same  *)
(* pipeline with no trigger gate, no debounce, no abort timer, and a       *)
(* warning box that removes itself 10 s after it is shown.  It runs on the *)
(* same pages; requests holds its postUrl calls and dom its warning boxes. *)
(***************************************************************************)
MaxPosts == 2

\* getCookiesAndTrackers of content.js
privacyData(pg) ==
  LET cookies == SelectSeq(Split(pg.cookie, ";"), LAMBDA c : Trim(c) # <<>>)
      trackers == SelectSeq(pg.scripts, IsTracker)
      thirdPartyRequests ==
        SelectSeq(pg.scripts,
                  LAMBDA src : /\ URLHostname(src) # Null
                               /\ URLHostname(src) # Str(pg.hostname))
  IN [cookieCount |-> Num(Len(cookies)),
      cookies |-> Arr(Slice0(cookies, 10)),
      trackers |-> Arr(trackers),
      thirdPartyScripts |-> Num(Len(thirdPartyRequests))]

PrivacyDataOf == [pg \in Pages |-> privacyData(pg)]

\* postUrl up to the return of fetch
postUrl(reqs, pg, url, origin) ==
  Append(reqs, [origin |-> origin, url |-> url, privacyData |-> PrivacyDataOf[pg],
                phase |-> "fetching", expiry |-> "none"])

loginIndicators ==
  {<<"l","o","g","i","n">>,
   <<"s","i","g","n"," ","i","n">>,
   <<"l","o","g"," ","i","n">>,
   <<"s","i","g","n","i","n">>,
   <<"p","a","s","s","w","o","r","d">>,
   <<"u","s","e","r","n","a","m","e">>,
   <<"e","m","a","i","l">>,
   <<"c","r","e","a","t","e"," ","a","c","c","o","u","n","t">>,
   <<"r","e","g","i","s","t","e","r">>}

hasLoginText(pg) ==
  \E indicator \in loginIndicators : Includes(ToLowerCase(pg.body.v), indicator)

LoginPage == [pg \in Pages |-> pg.hasPassword \/ hasLoginText(pg)]

\* the page-ready event of content.js; document.body.innerText raises with no body
checkForLoginPage ==
  /\ readyRuns' = IF readyRuns = "never" THEN "once" ELSE "again"
  /\ IF page.body = Null
     THEN uncaught' = uncaught \cup {"ready"} /\ UNCHANGED requests
     ELSE /\ IF LoginPage[page]
             THEN /\ Len(requests) < MaxPosts
                  /\ requests' = postUrl(requests, page, page.href, "ready")
             ELSE UNCHANGED requests
          /\ UNCHANGED uncaught
  /\ UNCHANGED <<page, triggered, timers, dom, rapidClicks, dismissed>>

\* target.innerText?.toLowerCase() || ""
shippedClickText(t) ==
  IF t.innerText \in {Undef, Null} THEN <<>> ELSE ToLowerCase(t.innerText.v)

shippedClickQualifies(t) ==
  /\ Truthy(t)
  /\ \/ Includes(shippedClickText(t), <<"l","o","g","i","n">>)
     \/ Includes(shippedClickText(t), <<"s","i","g","n"," ","i","n">>)

\* the click listener of content.js: a qualifying click posts at once
shippedClick ==
  /\ \E t \in ClickTargets :
       IF shippedClickQualifies(t)
       THEN /\ Len(requests) < MaxPosts
            /\ requests' = postUrl(requests, page, page.href, "click")
       ELSE UNCHANGED requests
  /\ UNCHANGED <<page, triggered, timers, dom, readyRuns, rapidClicks, dismissed,
                 uncaught>>

\* fetch resolves and res.json() starts reading
shippedResponseArrives(i) ==
  /\ requests[i].phase = "fetching"
  /\ requests' = [requests EXCEPT ![i].phase = "reading"]
  /\ UNCHANGED <<page, triggered, timers, dom, readyRuns, rapidClicks, dismissed,
                 uncaught>>

\* .then(data => ...): the warning box is appended to the body and its removal is
\* scheduled; data.privacy_risk of a null body raises into .catch, which logs
shippedThen(i) ==
  /\ requests[i].phase = "reading"
  /\ \E data \in ServerJsons :
       IF data = Null
       THEN /\ requests' = [requests EXCEPT ![i].phase = "failed"]
            /\ UNCHANGED dom
       ELSE /\ requests' = [requests EXCEPT ![i].phase = "shown", ![i].expiry = "armed"]
            /\ dom' = Append(dom, [inst |-> i, req |-> i, hasPopup |-> TRUE,
                                    risk |-> data.privacy_risk,
                                    url |-> requests[i].url])
  /\ UNCHANGED <<page, triggered, timers, readyRuns, rapidClicks, dismissed, uncaught>>

\* .catch(err => console.error(...)): nothing is shown
shippedCatch(i) ==
  /\ requests[i].phase \in {"fetching", "reading"}
  /\ requests' = [requests EXCEPT ![i].phase = "failed"]
  /\ UNCHANGED <<page, triggered, timers, dom, readyRuns, rapidClicks, dismissed,
                 uncaught>>

\* the box's button: onclick="this.parentElement.remove()"
shippedDismiss(k) ==
  /\ dom' = RemoveAt(dom, {k})
  /\ dismissed' = dismissed \cup {dom[k].inst}
  /\ UNCHANGED <<page, triggered, timers, requests, readyRuns, rapidClicks, uncaught>>

\* setTimeout(() => warningDiv.remove(), 10000) fires
shippedAutoDismiss(i) ==
  /\ requests[i].expiry = "armed"
  /\ requests' = [requests EXCEPT ![i].expiry = "fired"]
  /\ dom' = RemoveAt(dom, OverlayOf(dom, i))
  /\ UNCHANGED <<page, triggered, timers, readyRuns, rapidClicks, dismissed, uncaught>>

NextShipped ==
  \/ checkForLoginPage
  \/ shippedClick
  \/ \E i \in 1..Len(requests) : shippedResponseArrives(i)
  \/ \E i \in 1..Len(requests) : shippedThen(i)
  \/ \E i \in 1..Len(requests) : shippedCatch(i)
  \/ \E k \in 1..Len(dom) : shippedDismiss(k)
  \/ \E i \in 1..Len(requests) : shippedAutoDismiss(i)

SpecShipped == Init /\ [][NextShipped]_vars

(***************************************************************************)
(* The background script (src/chrome-extension/background.js): a message   *)
(* listener that posts the message's url to the analysis endpoint and      *)
(* reports with alert().  requests holds the messages it received, each     *)
(* with the state of its promise chain and the alerts it raised.           *)
(***************************************************************************)
MaxMessages == 2

MessageActions == {"analyze_url", "ping"}
MessageUrls == {Str(<<"h","t","t","p",":","/","/","a","/">>), Undef}

\* what r.json() may resolve to: null, a number, an object with or without the fields
DataFull == [privacy_risk |-> Str(<<"H","i","g","h">>), summary |-> Str(<<"o","k">>)]
DataEmpty == [privacy_risk |-> Undef, summary |-> Undef]
BackgroundJsons == {Null, Num(0), DataFull, DataEmpty}

\* data.f: a property read raises on null, gives undefined on a primitive
ReadRaises(data) == data \in {Null, Undef}
Property(data, f) == IF "t" \in DOMAIN data THEN Undef ELSE data[f]

\* the template literal handed to alert() at lines 11-13
ResultAlert(url, data) ==
  [kind |-> "result", site |-> JsString(url),
   risk |-> JsString(Property(data, "privacy_risk")),
   summary |-> JsString(Property(data, "summary"))]

FailureAlert == [kind |-> "failed"]

\* the listener body, lines 1-8: nothing unless message.action === "analyze_url"
onMessage(action, url) ==
  /\ Len(requests) < MaxMessages
  /\ requests' = Append(requests,
       [action |-> action, url |-> url,
        phase |-> IF action = "analyze_url" THEN "fetching" ELSE "ignored",
        fetches |-> IF action = "analyze_url" THEN 1 ELSE 0,
        body |-> IF action = "analyze_url" THEN [url |-> url] ELSE NoPayload,
        failure |-> "none", data |-> NoPayload, alerts |-> <<>>])
  /\ UNCHANGED <<page, triggered, timers, dom, readyRuns, rapidClicks, dismissed, uncaught>>

\* the response arrived and r.json() resolved (line 8)
backgroundParsed(i) ==
  /\ requests[i].phase = "fetching"
  /\ \E data \in BackgroundJsons :
       requests' = [requests EXCEPT ![i].phase = "then", ![i].data = data]
  /\ UNCHANGED <<page, triggered, timers, dom, readyRuns, rapidClicks, dismissed, uncaught>>

\* fetch rejected, or r.json() rejected on a body that is not JSON
backgroundRejected(i) ==
  /\ requests[i].phase = "fetching"
  /\ \E kind \in {"neterror", "parsefail"} :
       requests' = [requests EXCEPT ![i].phase = "catch", ![i].failure = kind]
  /\ UNCHANGED <<page, triggered, timers, dom, readyRuns, rapidClicks, dismissed, uncaught>>

\* .then((data) => ...), lines 9-14
backgroundThen(i) ==
  /\ requests[i].phase = "then"
  /\ requests' =
       IF ReadRaises(requests[i].data)
       THEN [requests EXCEPT ![i].phase = "catch", ![i].failure = "typeerror"]
       ELSE [requests EXCEPT ![i].phase = "done",
               ![i].alerts = Append(@, ResultAlert(requests[i].url, requests[i].data))]
  /\ UNCHANGED <<page, triggered, timers, dom, readyRuns, rapidClicks, dismissed, uncaught>>

\* a rejection handler that only logs
backgroundCatchSilent(i) ==
  /\ requests[i].phase = "catch"
  /\ requests' = [requests EXCEPT ![i].phase = "done"]
  /\ UNCHANGED <<page, triggered, timers, dom, readyRuns, rapidClicks, dismissed, uncaught>>

\* .catch((err) => ...), lines 15-18
backgroundCatch(i) ==
  /\ requests[i].phase = "catch"
  /\ requests' = [requests EXCEPT ![i].phase = "done",
                                  ![i].alerts = Append(@, FailureAlert)]
  /\ UNCHANGED <<page, triggered, timers, dom, readyRuns, rapidClicks, dismissed, uncaught>>

InitBackground == page = PagePlain /\ Start

NextBackground ==
  \/ \E action \in MessageActions, url \in MessageUrls : onMessage(action, url)
  \/ \E i \in 1..Len(requests) : backgroundParsed(i)
  \/ \E i \in 1..Len(requests) : backgroundRejected(i)
  \/ \E i \in 1..Len(requests) : backgroundThen(i)
  \/ \E i \in 1..Len(requests) : backgroundCatch(i)

SpecBackground == InitBackground /\ [][NextBackground]_vars

(***************************************************************************)
(* Properties.                                                             *)
(***************************************************************************)
FailureKinds == {"timeout", "neterror", "parsefail"}
Settled == {i \in 1..Len(requests) : requests[i].phase = "settled"}
ServerUnavailable ==
  Str(<<"S","e","r","v","e","r"," ","u","n","a","v","a","i","l","a","b","l","e">>)

\* C1: within one page load the detector (page-ready events, qualifying clicks and
\* their debounce timers, in any order and number) calls postToBridge at most once.
C1_AtMostOneDetectorDispatch == Cardinality(DetectorRequests) <= 1

C1_Witness ==
  /\ readyRuns = "again"
  /\ rapidClicks
  /\ timers = 0
  /\ DetectorRequests # {}
  /\ DetectorRequests \subseteq Settled

C3_FailureShowsFallback ==
  \A i \in 1..Len(requests) :
    requests[i].outcome \in FailureKinds =>
      LET r == requests[i] IN
      /\ r.popups >= 1
      /\ r.shown.cookieCount = r.local.cookieCount
      /\ r.shown.cookiePreview = r.local.cookiePreview
      /\ r.shown.trackers = r.local.trackers
      /\ r.shown.thirdPartyScriptsCount = r.local.thirdPartyScriptsCount
      /\ r.shown.risk = Undef
      /\ r.shown.privacy_risk = ServerUnavailable
      /\ r.shown.server_error = Bool(TRUE)

C3_Witness ==
  \E i, j \in 1..Len(requests) :
    /\ requests[i].outcome = "timeout"
    /\ requests[j].outcome = "parsefail"
    /\ requests[i].shown = requests[j].shown

\* C4: every postToBridge call is eventually followed by a showPopup call for it,
\* whatever the endpoint does, the abort timer being the only thing relied on.
C4_EveryDispatchShown ==
  \A i \in ReqIds :
    (Len(requests) >= i) ~> (Len(requests) >= i /\ requests[i].popups >= 1)

\* the endpoint never answered and the alert was rendered all the same
C4_Witness ==
  \E i \in 1..Len(requests) :
    /\ requests[i].outcome = "timeout"
    /\ requests[i].popups = 1
    /\ \E k \in 1..Len(dom) : dom[k].req = i

\* C5: two or more qualifying clicks made while Idle lead, once all their timers
\* have fired, to exactly one postToBridge call.
C5_RapidClicksOneDispatch ==
  (rapidClicks /\ timers = 0) => Cardinality(DetectorRequests) = 1

C5_Witness ==
  /\ rapidClicks
  /\ timers = 0
  /\ \E i \in DetectorRequests : requests[i].origin = "click"
  /\ Cardinality(DetectorRequests) = 1

\* C6: the flag is set in the step that issues the detector's request, so while
\* that request is in flight no page-ready event, click or debounce timer issues
\* another.
C6_NoDispatchWhileInFlight ==
  [][(DetectorRequests \cap InFlight # {}) =>
       /\ triggered
       /\ Cardinality({i \in 1..Len(requests') : requests'[i].origin \in DetectorOrigins})
            = Cardinality(DetectorRequests)]_vars

\* the first of two debounce timers dispatched on a sensitive page; the second
\* timer and the page-ready event ran while that request was in flight
C6_Witness ==
  /\ \E i \in DetectorRequests \cap InFlight : requests[i].origin = "click"
  /\ Sensitive[page]
  /\ readyRuns # "never"
  /\ rapidClicks
  /\ timers = 0

\* C7: on a page the detector finds sensitive, one run of detectLoginAndTrigger
\* leaves exactly one detector request and every further run adds none.
C7_PageReadyIdempotent ==
  (Sensitive[page] /\ readyRuns # "never") =>
     (triggered /\ Cardinality(DetectorRequests) = 1)

\* a password input, no keyword text: page-ready ran twice and dispatched once
C7_Witness ==
  /\ page = PagePassword
  /\ ~hasIndicatorText(page)
  /\ readyRuns = "again"
  /\ \E i \in DetectorRequests : requests[i].origin = "ready"
  /\ Cardinality(DetectorRequests) = 1

\* C8: the page holds at most one overlay and at most one popup.
C8_AtMostOneOverlay ==
  /\ Len(dom) <= 1
  /\ Cardinality({k \in 1..Len(dom) : dom[k].hasPopup}) <= 1

\* a second showPopup took the place of the first while both origins were used
C8_Witness ==
  /\ Len(dom) = 1
  /\ dom[1].inst >= 2
  /\ DetectorRequests \cap Settled # {}
  /\ ManualRequests \cap Settled # {}

\* C9: no text interpolated into the popup markup carries raw markup characters.
RawMarkup(s) == \E i \in 1..Len(s) : s[i] \in {"<", ">"}
C9_AllInterpolationsEscaped ==
  \A k \in 1..Len(dom) :
    LET h == innerHTML(dom[k]) IN
    ~RawMarkup(h.url) /\ ~RawMarkup(h.cookies) /\ ~RawMarkup(h.trackers)
      /\ ~RawMarkup(h.third) /\ ~RawMarkup(h.risk)

\* C10: an overlay leaves the page only by its own dismiss control or by a later
\* showPopup.
C10_OverlayStaysUntilDismissed ==
  [][\A k \in 1..Len(dom) :
       (\A j \in 1..Len(dom') : dom'[j].inst # dom[k].inst) =>
          \/ dom[k].inst \in dismissed' \ dismissed
          \/ SumPopups(requests') > SumPopups(requests)]_vars

\* the first overlay is still in the page after every debounce timer has fired and
\* while the response of another request is being read
C10_Witness ==
  /\ Len(dom) = 1
  /\ dom[1].inst = 1
  /\ timers = 0
  /\ rapidClicks
  /\ Len(requests) >= 2
  /\ \E i \in InFlight : requests[i].phase = "reading"

\* C11: in the shipped content script a warning box leaves the page only by a click
\* on its Dismiss button.
C11_ShippedPopupStaysUntilDismissed ==
  [][\A k \in 1..Len(dom) :
       dom[k].inst \notin Insts(dom') => dom[k].inst \in dismissed' \ dismissed]_vars

\* C12: a dismiss handler removes the overlay its own showPopup call created and
\* nothing else: every other overlay, a newer one included, stays in the page; and
\* an overlay its handler removed is never in the page again.
C12_DismissRemovesOwnOverlay ==
  [][/\ \A n \in dismissed' \ dismissed :
          /\ dismissed' = dismissed \cup {n}
          /\ n \notin Insts(dom')
          /\ \A k \in 1..Len(dom) :
               dom[k].inst # n => \E j \in 1..Len(dom') : dom'[j] = dom[k]
     /\ Insts(dom') \cap dismissed' = {}]_vars

\* the handler of a replaced overlay ran while the overlay that replaced it was shown
C12_Witness ==
  \E k \in 1..Len(dom) : dom[k].replaced \cap dismissed # {}

\* C13: a manual trigger leaves the flag as it was, and a flag still unset lets the
\* next debounce timer, and the next page-ready event on a sensitive page, dispatch,
\* however many manual requests there are.
C13_ManualTriggerIgnoresState ==
  [][/\ (\E i \in 1..Len(requests') : i > Len(requests) /\ requests'[i].origin = "manual")
          => triggered' = triggered
     /\ (timers' < timers /\ ~triggered)
          => (triggered' /\ Len(requests') = Len(requests) + 1
              /\ requests'[Len(requests')].origin = "click")
     /\ (readyRuns' # readyRuns /\ ~triggered /\ Sensitive[page])
          => (triggered' /\ Len(requests') = Len(requests) + 1
              /\ requests'[Len(requests')].origin = "ready")]_vars

\* a manual trigger made while Idle, then a dispatch by the detector
C13_Witness ==
  /\ Len(requests) = 2
  /\ requests[1].origin = "manual"
  /\ requests[2].origin \in DetectorOrigins

\* C14: no exception and no promise rejection leaves the script unhandled, on any
\* entry path, also where collection, detection or rendering raises.
C14_NothingEscapes == uncaught = {}

\* C15: after a successful response the payload shown carries every field the
\* server sent, the local snapshot's value for every other field, and the local
\* cookieCount whatever the server sent for it.
C15_MergeKeepsLocalCookieCount ==
  \A i \in 1..Len(requests) :
    (requests[i].outcome = "success" /\ requests[i].popups >= 1) =>
      LET r == requests[i]
          server == IF r.json = Null THEN EmptyObject ELSE r.json
      IN /\ r.shown.cookieCount = r.local.cookieCount
         /\ \A f \in PayloadFields \ {"cookieCount"} :
              r.shown[f] = IF server[f] # Undef THEN server[f]
                           ELSE IF f \in DOMAIN r.local THEN r.local[f] ELSE Undef

\* the server echoed a cookieCount other than the local one
C15_Witness ==
  \E i \in 1..Len(requests) :
    /\ requests[i].outcome = "success"
    /\ requests[i].json # Null
    /\ requests[i].json.cookieCount \notin {Undef, requests[i].local.cookieCount}
    /\ requests[i].shown.cookieCount = requests[i].local.cookieCount
    /\ \E k \in 1..Len(dom) : dom[k].req = i

\* C16: every postToBridge call has sent one request to the endpoint, whatever
\* became of it.
C16_SingleAttempt ==
  \A i \in 1..Len(requests) : requests[i].fetches = 1

\* a request that failed and a request that succeeded, one attempt each
C16_Witness ==
  \E i, j \in 1..Len(requests) :
    /\ requests[i].outcome \in FailureKinds
    /\ requests[j].outcome = "success"
    /\ requests[i].fetches = 1
    /\ requests[j].fetches = 1

\* the entries of a cookie string that are not empty once trimmed, trimmed, in order
TrimmedEntries(cookie) ==
  LET parts == Split(cookie, ";")
  IN SelectSeq([i \in 1..Len(parts) |-> Trim(parts[i])], LAMBDA c : c # <<>>)

\* C17: the snapshot's cookieCount is the number of entries of the cookie string
\* that are non-empty after trimming, and cookiePreview is the first
\* min(cookieCount, 10) of them, trimmed, in their order.
C17_CookieCountTrimmed ==
  \A i \in 1..Len(requests) :
    LET e == TrimmedEntries(page.cookie)
        l == requests[i].local
    IN /\ l.cookieCount = Num(Len(e))
       /\ l.cookiePreview = Arr(SubSeq(e, 1, IF Len(e) < 10 THEN Len(e) ELSE 10))

\* C18: the snapshot's thirdPartyScriptsCount is the number of script URLs that
\* parse and whose parsed host is not the page's host.
C18_ThirdPartyCount ==
  \A i \in 1..Len(requests) :
    requests[i].local.thirdPartyScriptsCount =
      Num(Cardinality({k \in 1..Len(page.scripts) :
                         /\ URLHostname(page.scripts[k]) # Null
                         /\ URLHostname(page.scripts[k]) # Str(page.hostname)}))

SixSubstrings ==
  {<<"a","n","a","l","y","t","i","c","s">>,
   <<"g","o","o","g","l","e","-","a","n","a","l","y","t","i","c","s">>,
   <<"d","o","u","b","l","e","c","l","i","c","k">>,
   <<"f","a","c","e","b","o","o","k">>,
   <<"p","i","x","e","l">>,
   <<"t","r","a","c","k","i","n","g">>}
InVocabulary(src) == \E w \in SixSubstrings : Includes(ToLowerCase(src), w)

\* C19: a script URL is in the snapshot's trackers list exactly if its lower-cased
\* form holds one of the six substrings; the list has one entry for each such
\* script element, in document order.
C19_TrackersListed ==
  \A i \in 1..Len(requests) :
    LET t == requests[i].local.trackers.v
        sc == page.scripts
        hits == {k \in 1..Len(sc) : InVocabulary(sc[k])}
    IN /\ \A k \in 1..Len(sc) : (k \in hits) <=> (\E j \in 1..Len(t) : t[j] = sc[k])
       /\ Len(t) = Cardinality(hits)
       /\ \E f \in [1..Len(t) -> hits] :
            /\ \A j \in 1..Len(t) : t[j] = sc[f[j]]
            /\ \A j1, j2 \in 1..Len(t) : j1 < j2 => f[j1] < f[j2]

\* a script written with capitals that is listed, after one that is not
C19_Witness ==
  /\ Len(requests) >= 1
  /\ Len(page.scripts) = 2
  /\ ~InVocabulary(page.scripts[1])
  /\ InVocabulary(page.scripts[2])
  /\ ToLowerCase(page.scripts[2]) # page.scripts[2]
  /\ requests[1].local.trackers = Arr(<<page.scripts[2]>>)

NineKeywords ==
  {<<"l","o","g","i","n">>,
   <<"s","i","g","n"," ","i","n">>,
   <<"l","o","g"," ","i","n">>,
   <<"s","i","g","n","i","n">>,
   <<"p","a","s","s","w","o","r","d">>,
   <<"u","s","e","r","n","a","m","e">>,
   <<"e","m","a","i","l">>,
   <<"c","r","e","a","t","e"," ","a","c","c","o","u","n","t">>,
   <<"r","e","g","i","s","t","e","r">>}

\* C20: once page-ready has run, the page is Dispatched with one request of the
\* page-ready path if it has a password input or its lower-cased text holds one of
\* the nine keywords, and is Idle with no such request otherwise.
C20_PageReadyDispatchIffSensitive ==
  readyRuns # "never" =>
    LET text == ToLowerCase(IF page.body \in {Null, Str(<<>>)} THEN <<>> ELSE page.body.v)
        sensitive == page.hasPassword \/ \E k \in NineKeywords : Includes(text, k)
    IN /\ triggered = sensitive
       /\ Cardinality({i \in 1..Len(requests) : requests[i].origin = "ready"})
            = (IF sensitive THEN 1 ELSE 0)

\* no password input and a keyword written with capitals: page-ready dispatched
C20_Witness ==
  /\ readyRuns # "never"
  /\ ~page.hasPassword
  /\ page.body # Null
  /\ ToLowerCase(page.body.v) # page.body.v
  /\ triggered
  /\ \E i \in 1..Len(requests) : requests[i].origin = "ready"

\* C21: in the shipped content script postUrl is called at most once per page
\* load, however many page-ready events and qualifying clicks there are.
C21_ShippedAtMostOnePost == Len(requests) <= 1

\* C22: in the shipped content script no postUrl call ends without a warning box
\* having been shown for it.
C22_ShippedAlwaysRenders ==
  \A i \in 1..Len(requests) : requests[i].phase # "failed"

\* C23: once the flag is set, no step of the script unsets it.
C23_TriggerStateMonotonic == [][triggered => triggered']_vars

\* the flag is set and every kind of event has run since: page-ready again, clicks
\* and their timers, a manual trigger, completions of both requests, a dismissal
C23_Witness ==
  /\ triggered
  /\ readyRuns = "again"
  /\ rapidClicks
  /\ timers = 0
  /\ ManualRequests # {}
  /\ InFlight = {}
  /\ \E i \in Settled : requests[i].outcome = "timeout"
  /\ dismissed # {}

ThreePhrases ==
  {<<"l","o","g","i","n">>, <<"s","i","g","n"," ","i","n">>, <<"l","o","g"," ","i","n">>}

\* the lower-cased text of the element, or its value where it has no text, holds
\* one of the three phrases
PhraseIn(t) ==
  /\ t # Null
  /\ LET text == IF t.innerText \notin {Undef, Null, Str(<<>>)} THEN t.innerText.v
                  ELSE IF t.value \notin {Undef, Null} THEN t.value.v ELSE <<>>
     IN \E w \in ThreePhrases : Includes(ToLowerCase(text), w)

\* C24: a click schedules a dispatch exactly if its target holds one of the three
\* phrases (the click on a dismiss control schedules none); a debounce timer that
\* fires while Idle dispatches one request, on any page, and one that fires while
\* Dispatched dispatches none; a page-ready event while Dispatched dispatches none.
C24_ClickDispatchesRegardlessOfDetector ==
  /\ \A t \in ClickTargets \cup {DismissButton} : (t \in Qualifying) <=> PhraseIn(t)
  /\ [][/\ (timers' < timers /\ ~triggered)
             => /\ triggered'
                /\ requests' = Append(requests, requests'[Len(requests')])
                /\ requests'[Len(requests')].origin = "click"
        /\ (timers' < timers /\ triggered) => requests' = requests
        /\ (readyRuns' # readyRuns /\ triggered) => (triggered' /\ requests' = requests)
        /\ (dismissed' # dismissed) => timers' = timers]_vars

\* on a sensitive page a single click dispatched before page-ready ran, and
\* page-ready, run afterwards, added nothing
C24_Witness ==
  /\ Sensitive[page]
  /\ ~rapidClicks
  /\ readyRuns # "never"
  /\ Cardinality(DetectorRequests) = 1
  /\ \E i \in DetectorRequests : requests[i].origin = "click"

C26_NoticeIffFailure ==
  \A k \in 1..Len(dom) :
    innerHTML(dom[k]).notice <=> (requests[dom[k].req].outcome \in FailureKinds)

\* C27: after a successful response the tracker count and the third-party script
\* count the overlay shows are those of the request's local snapshot.
C27_LocalCountsShown ==
  \A k \in 1..Len(dom) :
    LET r == requests[dom[k].req] IN
    r.outcome = "success" =>
      /\ innerHTML(dom[k]).trackers = NumToString(Len(r.local.trackers.v))
      /\ innerHTML(dom[k]).third = JsString(r.local.thirdPartyScriptsCount)

\* C28: a request's snapshot is the page's state at the instant of its postToBridge
\* call; the request body and the baseline of the payload presented carry that
\* snapshot, which no later step changes, whatever the page does meanwhile.
C28_SnapshotOncePerCall ==
  [][/\ \A i \in 1..Len(requests) :
          LET r == requests[i] IN
          /\ requests'[i].local = r.local
          /\ requests'[i].body = r.body
          /\ r.body.url = r.url
          /\ \A f \in DOMAIN r.local : r.body[f] = r.local[f]
          /\ r.shown # NoPayload =>
               /\ r.shown.cookieCount = r.local.cookieCount
               /\ r.json \in {NoPayload, Null} =>
                    \A f \in DOMAIN r.local : r.shown[f] = r.local[f]
     /\ Len(requests') > Len(requests) =>
          requests'[Len(requests')].local = getCookiesAndTrackers(page)]_vars

\* the page changed while the first request was in flight, and a second call took
\* a snapshot of the page as changed
C28_Witness ==
  /\ Len(requests) = 2
  /\ requests[1].phase = "reading"
  /\ requests[1].local # getCookiesAndTrackers(page)
  /\ requests[2].local = getCookiesAndTrackers(page)

\* C29: in the background script a message whose action is "analyze_url" issues
\* exactly one request and raises at most one alert, exactly one once its promise
\* chain has ended: the result alert only when the request and the parse
\* succeeded, the failure alert only after a failure; a message with another
\* action issues no request and raises no alert.
C29_OneRequestOneAlert ==
  \A i \in 1..Len(requests) :
    LET m == requests[i] IN
    IF m.action = "analyze_url"
    THEN /\ m.fetches = 1
         /\ m.body = [url |-> m.url]
         /\ Len(m.alerts) <= 1
         /\ m.phase = "done" <=> Len(m.alerts) = 1
         /\ \A k \in 1..Len(m.alerts) :
              /\ m.alerts[k].kind = "result" =>
                   m.failure = "none" /\ m.data \in BackgroundJsons
              /\ m.alerts[k].kind = "failed" => m.failure # "none"
              /\ m.failure # "none" => m.alerts[k] = FailureAlert
    ELSE /\ m.fetches = 0
         /\ m.alerts = <<>>
         /\ m.phase = "ignored"

\* one message ended in the result alert, another in the failure alert after
\* its body parsed to null
C29_Witness ==
  \E i, j \in 1..Len(requests) :
    /\ requests[i].phase = "done"
    /\ requests[i].alerts = <<ResultAlert(requests[i].url, DataFull)>>
    /\ requests[j].phase = "done"
    /\ requests[j].failure = "typeerror"
    /\ requests[j].alerts = <<FailureAlert>>

=============================================================================
